---- MODULE Spec2Model ----
(***************************************************************************)
(* gator: a templating delegator CNI meta plugin (src/main.go).            *)
(*                                                                         *)
(* One run of the process is modelled: main reads stdin, prepare decodes   *)
(* the envelope, renders the patch template and composes the downstream   *)
(* configuration with three merge patches, delegate resolves the plugin on *)
(* CNI_PATH and runs it.  JSON documents are modelled as tagged values, a  *)
(* byte string that is not JSON as BadJSON, a zero-length one as           *)
(* EmptyBytes.                                                             *)
(***************************************************************************)
EXTENDS Integers, Sequences, FiniteSets, TLC

\* ------------------------------------------------------------------ bounds
\* Longest CNI_PATH (number of colon-separated directories) explored.
MaxPathLen == 2
\* Largest exit code of the downstream plugin explored.
MaxExitCode == 2

\* --------------------------------------------------------------- constants
ErrIOFailure == 5
ErrDecodingFailure == 6
ErrInvalidPatchTemplate == 100
ErrMergeJSONFailed == 101
\* Exit status of a Go process that dies of an unrecovered panic.
PanicExitCode == 2

\* ------------------------------------------------------------- JSON values
Null == [t |-> "null"]
Str(s) == [t |-> "str", v |-> s]
Arr(a) == [t |-> "arr", a |-> a]
Obj(m) == [t |-> "obj", m |-> m]
\* Bytes that are not syntactically valid JSON, and zero bytes.
BadJSON == [t |-> "bad"]
EmptyBytes == [t |-> "empty"]
\* A nil pointer (conf, conf.Config).
Nil == [t |-> "nil"]
\* The patch string, seen as a template: whether it parses, whether it
\* executes on the input, and the bytes it renders.
Tmpl(parse, exec, out) == [t |-> "tmpl", parse |-> parse, exec |-> exec, out |-> out]

EmptyMap == [k \in {} |-> Null]
IsObj(d) == d.t = "obj"
IsJSON(d) == d.t \in {"null", "str", "arr", "obj", "tmpl"}
Has(d, k) == IsObj(d) /\ k \in DOMAIN d.m

\* RFC7396 MergePatch(Target, Patch) on parsed documents.
RECURSIVE Merge(_, _)
Merge(target, patch) ==
    IF ~IsObj(patch) THEN patch
    ELSE LET base == IF IsObj(target) THEN target.m ELSE EmptyMap
             keep == {k \in DOMAIN base : k \notin DOMAIN patch.m}
                     \cup {k \in DOMAIN patch.m : patch.m[k] # Null}
         IN Obj([k \in keep |->
                 IF k \in DOMAIN patch.m
                 THEN Merge(IF k \in DOMAIN base THEN base[k] ELSE Null, patch.m[k])
                 ELSE base[k]])

\* jsonpatch.MergePatch on bytes: it fails when either side is not JSON.
MergePatch(doc, patch) ==
    IF ~IsJSON(doc) \/ ~IsJSON(patch)
    THEN [ok |-> FALSE, out |-> BadJSON]
    ELSE [ok |-> TRUE, out |-> Merge(doc, patch)]

\* ------------------------------------------------------------------ errors
\* An error value: its Go type, the CNI error code (types.Error only), its
\* message and the values formatted into it.
Err(kind, code, msg, args) == [kind |-> kind, Code |-> code, Msg |-> msg, Args |-> args]
NoErr == Err("nil", 0, "", <<>>)
NewError(code, msg) == Err("types.Error", code, msg, <<>>)

\* -------------------------------------------------------------- the envelope
\* Plugin names: a plain one, the empty one, and one that holds a double quote.
QuotedName == "de\"bug"
PluginNames == {"debug", "", QuotedName}

\* Patch == "": the zero template parses, executes and renders nothing.
EmptyTemplate == Tmpl(TRUE, TRUE, EmptyBytes)

\* json.Unmarshal(stdin, conf): the fields of PluginConfig found in stdin.  A
\* null leaves the field at its zero value; a value of the wrong shape, or a
\* stdin that is no JSON object, is an error.
Decode(stdin) ==
    LET shapeOk(k, tags) == Has(stdin, k) => stdin.m[k].t \in tags
        ok == /\ IsObj(stdin)
              /\ shapeOk("patch", {"tmpl", "null"})
              /\ shapeOk("plugin", {"str", "null"})
    IN [ok |-> ok,
        conf |-> IF ~ok THEN Nil
                 ELSE [Config |-> IF Has(stdin, "config") /\ stdin.m["config"] # Null
                                  THEN stdin.m["config"] ELSE Nil,
                       Patch |-> IF Has(stdin, "patch") /\ stdin.m["patch"] # Null
                                 THEN stdin.m["patch"] ELSE EmptyTemplate,
                       Plugin |-> IF Has(stdin, "plugin") /\ stdin.m["plugin"] # Null
                                  THEN stdin.m["plugin"].v ELSE "",
                       finalConfig |-> Nil]]

\* fmt.Sprintf of the cleanup patch: the plugin name is pasted between double
\* quotes unescaped, so a name holding a double quote yields bytes that are
\* not JSON.
Cleanup(plugin) ==
    IF plugin = QuotedName THEN BadJSON
    ELSE Obj([k \in {"type", "plugin", "config", "patch"} |->
              IF k = "type" THEN Str(plugin) ELSE Null])

\* "Allow no-op configs": the base document and the patch of the second merge.
DownstreamConf(conf) == IF conf.Config # Nil THEN conf.Config ELSE Obj(EmptyMap)
PatchBytes(rendered) == IF rendered = EmptyBytes THEN Obj(EmptyMap) ELSE rendered

\* The three merges of prepare, on the bytes the template rendered.
\* A slip in the first merge: the cleanup patch applied to an empty document
\* instead of stdin.
CleanedFromEmpty(stdin, conf) == MergePatch(Obj(EmptyMap), Cleanup(conf.Plugin))
Cleaned(stdin, conf) == MergePatch(stdin, Cleanup(conf.Plugin))
\* A slip in the second merge: the patch's keys laid over config's without
\* applying its nulls, which then reach the last merge.
DownstreamKeepsNulls(conf, rendered) ==
    LET base == DownstreamConf(conf)
        patch == PatchBytes(rendered)
    IN IF ~IsObj(base) \/ ~IsObj(patch) THEN MergePatch(base, patch)
       ELSE [ok |-> TRUE,
             out |-> Obj([k \in DOMAIN base.m \cup DOMAIN patch.m |->
                          IF k \in DOMAIN patch.m THEN patch.m[k] ELSE base.m[k]])]
Downstream(conf, rendered) == MergePatch(DownstreamConf(conf), PatchBytes(rendered))
\* A slip in the order of the last merge: the envelope laid over the downstream
\* document.
FinalMergeSwapped(cleaned, downstream) == MergePatch(downstream, cleaned)
FinalMerge(cleaned, downstream) == MergePatch(cleaned, downstream)

\* prepare(stdin): the configuration (nil on error), the error, and the
\* stages that ran.
prepare(stdin) ==
    LET d == Decode(stdin)
        conf == d.conf
        tmpl == conf.Patch
        cleaned == Cleaned(stdin, conf)
        downstream == Downstream(conf, tmpl.out)
        final == FinalMerge(cleaned.out, downstream.out)
        fail(code, msg, ran) == [conf |-> Nil, err |-> NewError(code, msg), ran |-> ran]
    IN IF ~d.ok
       THEN fail(ErrDecodingFailure, "failed to parse JSON config", {})
       ELSE IF ~tmpl.parse
       THEN fail(ErrDecodingFailure, "failed to parse JSON merge patch template",
                 {"Parse"})
       ELSE IF ~IsJSON(stdin)
       THEN fail(ErrDecodingFailure, "failed to parse stdin to plain interface",
                 {"Parse"})
       ELSE IF ~tmpl.exec
       THEN fail(ErrInvalidPatchTemplate,
                 "failed to execute template for JSON merge patch",
                 {"Parse", "Execute"})
       ELSE IF ~cleaned.ok
       THEN fail(ErrMergeJSONFailed, "failed to clean up undelegated config items",
                 {"Parse", "Execute", "Merge1"})
       ELSE IF ~downstream.ok
       THEN fail(ErrMergeJSONFailed, "failed to merge patch with downstream config",
                 {"Parse", "Execute", "Merge1", "Merge2"})
       ELSE IF ~final.ok
       THEN fail(ErrMergeJSONFailed, "failed to merge downstream config with original",
                 {"Parse", "Execute", "Merge1", "Merge2", "Merge3"})
       ELSE [conf |-> [conf EXCEPT !.finalConfig = final.out],
             err |-> NoErr,
             ran |-> {"Parse", "Execute", "Merge1", "Merge2", "Merge3"}]

\* ------------------------------------------------------------ the file system
DefaultDir == "/opt/cni/bin"
Dirs == {"/a", "/b"}
AllDirs == Dirs \cup {DefaultDir}

NoEnt == [kind |-> "noent", readable |-> FALSE, mode |-> 0]
File(mode, readable) == [kind |-> "file", readable |-> readable, mode |-> mode]
DirEnt == [kind |-> "dir", readable |-> TRUE, mode |-> 493]

\* filepath.Join(p, plugin): the empty element is dropped, so joining the
\* empty plugin name yields the directory itself.
Join(p, plugin) == SelectSeq(<<p, plugin>>, LAMBDA e : e # "")

\* What a path names in the file system fsys: fsys[d] tells whether directory
\* d exists and what it holds under the plugin's name.
Lookup(fsys, path) ==
    IF Len(path) = 0 \/ ~fsys[path[1]].dir THEN NoEnt
    ELSE IF Len(path) = 1 THEN DirEnt
    ELSE fsys[path[1]].ent

\* s.Mode()&0111 != 0
ExecBits(mode) == (mode % 2) + ((mode \div 8) % 2) + ((mode \div 64) % 2) # 0

\* The candidate directories: CNI_PATH split at the colons, or the default.
CniPaths(cniPathVar) == IF cniPathVar # <<>> THEN cniPathVar ELSE <<DefaultDir>>

\* Whether the loop of getPluginPath returns fullPath for directory p.
Matches(fsys, p, plugin) ==
    LET e == Lookup(fsys, Join(p, plugin))
    IN e.kind # "noent" /\ e.readable /\ ExecBits(e.mode)

\* A slip in the loop: a later match overrides an earlier one.
RECURSIVE LastMatch(_, _, _, _)
LastMatch(fsys, cniPaths, plugin, i) ==
    IF i > Len(cniPaths) THEN <<>>
    ELSE LET later == LastMatch(fsys, cniPaths, plugin, i + 1)
         IN IF later # <<>> THEN later
            ELSE IF Matches(fsys, cniPaths[i], plugin) THEN Join(cniPaths[i], plugin)
            ELSE <<>>

\* The loop of getPluginPath from element i on: the first fullPath that opens
\* and has an execute bit, or <<>> when the list is exhausted.
RECURSIVE FirstMatch(_, _, _, _)
FirstMatch(fsys, cniPaths, plugin, i) ==
    IF i > Len(cniPaths) THEN <<>>
    ELSE IF Matches(fsys, cniPaths[i], plugin) THEN Join(cniPaths[i], plugin)
    ELSE FirstMatch(fsys, cniPaths, plugin, i + 1)

\* The error of getPluginPath: its format string and the values formatted in.
NotFound(plugin, cniPaths) ==
    Err("errorString", 0, "error: cni executable not found in CNI_PATH: %s", <<plugin>>)

\* getPluginPath(plugin): the first match, or the error.  Every fullPath is
\* non-empty unless both the directory and the plugin name are empty.
getPluginPath(fsys, cniPathVar, plugin) ==
    LET cniPaths == CniPaths(cniPathVar)
        found == FirstMatch(fsys, cniPaths, plugin, 1)
    IN IF found # <<>>
       THEN [path |-> found, err |-> NoErr]
       ELSE [path |-> <<>>, err |-> NotFound(plugin, cniPaths)]

\* ---------------------------------------------------------------- the process
VARIABLES
    pc,         \* where main is: "main", "read", "prepared", "resolved", "running", "exited"
    input,      \* what the process is given: [ok, bytes] of stdin, read by io.ReadAll
    env,        \* the environment: CNI_PATH (the directories between the colons), CNI_COMMAND
    fs,         \* the file system: per directory, whether it exists and its entry for the plugin
    stdin,      \* main's stdin (Nil before it is read)
    conf,       \* main's conf (Nil before prepare, and when prepare fails)
    ran,        \* the stages of prepare that ran
    pluginPath, \* delegate's pluginPath
    child,      \* the downstream process: [state, path, stdin, code]
    stdout,     \* what has been written to standard output, in order
    stderr,     \* the errors logged to standard error, in order
    exitCode    \* the exit status (-1 while the process runs)

vars == <<pc, input, env, fs, stdin, conf, ran, pluginPath, child, stdout, stderr, exitCode>>

NoChild == [state |-> "none", path |-> <<>>, stdin |-> Nil, code |-> 0]

\* handleError(err): log.Println(err), and nothing else.
handleError(log, err) == Append(log, err)

\* main returns: the Go runtime exits with status 0.
MainReturns == 0

\* main, lines 63-72: io.ReadAll(os.Stdin).
ReadAll ==
    /\ pc = "main"
    /\ IF input.ok
       THEN /\ stdin' = input.bytes
            /\ pc' = "read"
            /\ UNCHANGED <<stderr, exitCode>>
       ELSE /\ stderr' = handleError(stderr, NewError(ErrIOFailure, "failed to read stdin"))
            /\ pc' = "exited"
            /\ exitCode' = MainReturns
            /\ UNCHANGED stdin
    /\ UNCHANGED <<input, env, fs, conf, ran, pluginPath, child, stdout>>

\* main, lines 74-77: prepare(stdin); its error is logged and main goes on.
Prepare ==
    /\ pc = "read"
    /\ LET r == prepare(stdin)
       IN /\ conf' = r.conf
          /\ ran' = r.ran
          /\ stderr' = IF r.err # NoErr THEN handleError(stderr, r.err) ELSE stderr
    /\ pc' = "prepared"
    /\ UNCHANGED <<input, env, fs, stdin, pluginPath, child, stdout, exitCode>>

\* main, line 82, with conf == nil: conf.Plugin dereferences a nil pointer,
\* the runtime panics and the process dies.
NilConf ==
    /\ pc = "prepared"
    /\ conf = Nil
    /\ stderr' = Append(stderr, Err("panic", 0, "invalid memory address or nil pointer dereference", <<>>))
    /\ exitCode' = PanicExitCode
    /\ pc' = "exited"
    /\ UNCHANGED <<input, env, fs, stdin, conf, ran, pluginPath, child, stdout>>

\* delegate, lines 173-176 (and main, lines 82-85 on its error).
Resolve ==
    /\ pc = "prepared"
    /\ conf # Nil
    /\ LET r == getPluginPath(fs, env.CNI_PATH, conf.Plugin)
       IN IF r.err = NoErr
          THEN /\ pluginPath' = r.path
               /\ pc' = "resolved"
               /\ UNCHANGED <<stderr, exitCode>>
          ELSE /\ stderr' = handleError(stderr, r.err)
               /\ exitCode' = MainReturns
               /\ pc' = "exited"
               /\ UNCHANGED pluginPath
    /\ UNCHANGED <<input, env, fs, stdin, conf, ran, child, stdout>>

\* delegate, lines 177-184: cmd.Run starts the plugin, or fails to.  A
\* directory cannot be executed; any other start may fail too.
Start ==
    /\ pc = "resolved"
    /\ \E started \in (IF Lookup(fs, pluginPath).kind = "dir" THEN {FALSE} ELSE BOOLEAN) :
          IF started
          THEN /\ child' = [state |-> "running", path |-> pluginPath,
                            stdin |-> conf.finalConfig, code |-> 0]
               /\ pc' = "running"
               /\ UNCHANGED <<stderr, exitCode>>
          ELSE /\ stderr' = handleError(stderr, Err("PathError", 0, "fork/exec failed", <<pluginPath>>))
               /\ exitCode' = MainReturns
               /\ pc' = "exited"
               /\ UNCHANGED child
    /\ UNCHANGED <<input, env, fs, stdin, conf, ran, pluginPath, stdout>>

\* delegate, lines 182-185: cmd.Run waits for the plugin, whose output went to
\* os.Stdout; a nonzero exit status is an *exec.ExitError, which main logs.
Wait ==
    /\ pc = "running"
    /\ \E c \in 0..MaxExitCode :
          /\ child' = [child EXCEPT !.state = "exited", !.code = c]
          /\ stderr' = IF c # 0
                       THEN handleError(stderr, Err("ExitError", 0, "exit status %d", <<c>>))
                       ELSE stderr
    /\ stdout' = Append(stdout, [by |-> "plugin", data |-> child.stdin])
    /\ exitCode' = MainReturns
    /\ pc' = "exited"
    /\ UNCHANGED <<input, env, fs, stdin, conf, ran, pluginPath>>

Next == ReadAll \/ Prepare \/ NilConf \/ Resolve \/ Start \/ Wait

\* ------------------------------------------------------------------ inputs
\* A field left out of the envelope.
Absent == [t |-> "absent"]

\* The JSON object with the given <<key, value>> fields, Absent ones left out.
MkObj(fields) ==
    LET present == {f \in fields : f[2] # Absent}
    IN Obj([k \in {f[1] : f \in present} |-> (CHOOSE f \in present : f[1] = k)[2]])

\* All JSON objects over some of the keys, with values from vals.
ObjectsOver(keys, vals) == {Obj(m) : m \in UNION {[S -> vals] : S \in SUBSET keys}}

Envelope(plugin, config, patch, skip, prevResult, mtu) ==
    MkObj({<<"type", Str("gator")>>, <<"plugin", plugin>>, <<"config", config>>,
           <<"patch", patch>>, <<"skip", skip>>, <<"prevResult", prevResult>>,
           <<"mtu", mtu>>})

\* Templates that fail to parse, fail to execute, render nothing, and render
\* bytes that are not JSON.
ParseErrTmpl == Tmpl(FALSE, FALSE, EmptyBytes)
ExecErrTmpl == Tmpl(TRUE, FALSE, EmptyBytes)
BadOutTmpl == Tmpl(TRUE, TRUE, BadJSON)

PrevResult == Obj([k \in {"x"} |-> Str("c")])

\* The envelopes of the composition runs: every base config and every rendered
\* patch over two keys the envelope may hold too.
ComposeConfigs ==
    {Absent, Null}
    \cup ObjectsOver({"mtu", "prevResult"},
                     {Null, Str("a"), Obj([k \in {"y"} |-> Str("a")])})
ComposePatches ==
    {Absent, EmptyTemplate, ParseErrTmpl, ExecErrTmpl, BadOutTmpl}
    \cup {Tmpl(TRUE, TRUE, o) :
            o \in ObjectsOver({"mtu", "prevResult"},
                              {Null, Str("b"), Obj([k \in {"x"} |-> Null]),
                               Obj([k \in {"y"} |-> Str("b")])})}
ComposeEnvelopes ==
    {Envelope(Str(p), c, t, s, r, m) :
        p \in PluginNames, c \in ComposeConfigs, t \in ComposePatches,
        s \in {Absent, Arr(<<"ADD">>)}, r \in {Absent, PrevResult},
        m \in {Absent, Str("c"), Obj([k \in {"x"} |-> Str("c")])}}

\* The envelopes of the process runs, and two inputs that do not decode: bytes
\* that are not JSON, and a patch that is no string.
ProcessEnvelopes ==
    {Envelope(p, c, t, s, PrevResult, Absent) :
        p \in {Str(n) : n \in PluginNames} \cup {Absent},
        c \in {Absent, Obj([k \in {"mtu"} |-> Str("a")])},
        t \in {Absent, ParseErrTmpl, ExecErrTmpl, BadOutTmpl,
               Tmpl(TRUE, TRUE, Obj([k \in {"mtu"} |-> Str("b")]))},
        s \in {Absent, Arr(<<"ADD">>)}}
    \cup {BadJSON, Envelope(Str("debug"), Absent, Obj(EmptyMap), Absent, Absent, Absent)}

\* The entries a directory may hold under the plugin's name: none, a file
\* without execute bits (0644), executables (0755, 0010), and an executable
\* the process may not open for reading.
Entries == {NoEnt, File(420, TRUE), File(493, TRUE), File(8, TRUE), File(493, FALSE)}
DirStates == {[dir |-> FALSE, ent |-> NoEnt]} \cup {[dir |-> TRUE, ent |-> e] : e \in Entries}

\* Sequences of directories, up to n long.
RECURSIVE SeqsUpTo(_, _)
SeqsUpTo(S, n) ==
    IF n = 0 THEN {<<>>}
    ELSE LET shorter == SeqsUpTo(S, n - 1)
         IN shorter \cup {Append(q, d) : q \in shorter, d \in S}

\* The state when main starts.
Start0(in, e, f) ==
    /\ pc = "main"
    /\ input = in
    /\ env = e
    /\ fs = f
    /\ stdin = Nil
    /\ conf = Nil
    /\ ran = {}
    /\ pluginPath = <<>>
    /\ child = NoChild
    /\ stdout = <<>>
    /\ stderr = <<>>
    /\ exitCode = -1

\* Process runs: any search path and file system, the process envelopes.
Init ==
    \E b \in ProcessEnvelopes \cup {EmptyBytes},
       path \in SeqsUpTo(Dirs, MaxPathLen),
       cmd \in {"ADD", "DEL"},
       f \in [AllDirs -> DirStates] :
        /\ f[DefaultDir] \in {[dir |-> TRUE, ent |-> e] : e \in {NoEnt, File(493, TRUE)}}
        /\ Start0([ok |-> b # EmptyBytes, bytes |-> b],
                  [CNI_PATH |-> path, CNI_COMMAND |-> cmd], f)

Spec == Init /\ [][Next]_vars

\* Composition runs: every composition envelope, the plugin installed in the
\* default directory.
InitCompose ==
    \E b \in ComposeEnvelopes :
        Start0([ok |-> TRUE, bytes |-> b],
               [CNI_PATH |-> <<>>, CNI_COMMAND |-> "ADD"],
               [d \in AllDirs |-> [dir |-> TRUE, ent |-> File(493, TRUE)]])

SpecCompose == InitCompose /\ [][Next]_vars

\* ------------------------------------------------------------------ claims
OwnFields == {"plugin", "config", "patch", "skip"}
Exited == pc = "exited"
Spawned == child.state # "none"
\* prepare returned a configuration.
Prepared == pc \notin {"main", "read"} /\ conf # Nil
\* The errors logged so far.
Logged == {stderr[i] : i \in 1..Len(stderr)}
\* The command being executed is on the envelope's skip list.
SkipListed ==
    /\ input.ok
    /\ Has(input.bytes, "skip")
    /\ input.bytes.m["skip"].t = "arr"
    /\ \E i \in 1..Len(input.bytes.m["skip"].a) : input.bytes.m["skip"].a[i] = env.CNI_COMMAND
\* A top-level key of document d holds a value that is neither null nor an object.
ScalarAt(d, k) == Has(d, k) /\ d.m[k].t \in {"str", "arr"}

\* C1: whenever a downstream configuration is produced, FinalConfig holds none
\* of the top-level keys plugin, config, patch and skip.
C1_OwnFieldsStripped ==
    Prepared /\ IsObj(conf.finalConfig) => DOMAIN conf.finalConfig.m \cap OwnFields = {}

\* C2: when skip lists the command being executed, the run writes the input
\* to standard output and exits 0, and neither the template engine, the patch
\* composer, the resolver nor the plugin is invoked.
C2_SkipFastPath ==
    SkipListed =>
        /\ ran = {}
        /\ pluginPath = <<>>
        /\ ~Spawned
        /\ Exited => exitCode = 0 /\ stdout = <<[by |-> "gator", data |-> input.bytes]>>

\* The documents of the composition, from the envelope alone: the base config
\* (or {}), the rendered patch (or {}), the cleanup patch written out, and the
\* stage-2 document.
BaseConfig ==
    IF Has(stdin, "config") /\ stdin.m["config"] # Null THEN stdin.m["config"]
    ELSE Obj(EmptyMap)
RenderedPatch ==
    IF Has(stdin, "patch") /\ stdin.m["patch"] # Null /\ stdin.m["patch"].out # EmptyBytes
    THEN stdin.m["patch"].out
    ELSE Obj(EmptyMap)
CleanupPatch ==
    Obj([k \in {"type", "plugin", "config", "patch"} |->
         IF k = "type" THEN Str(conf.Plugin) ELSE Null])
Stage2 == Merge(BaseConfig, RenderedPatch)
TopKeys == {"type", "plugin", "config", "patch", "skip", "prevResult", "mtu"}

\* C3 as stated: every top-level key that config or the rendered patch holds
\* with a non-null, non-object value is in FinalConfig with the downstream
\* document's value.
C3_DownstreamWinsAsStated ==
    Prepared =>
        \A k \in TopKeys :
            ScalarAt(BaseConfig, k) \/ ScalarAt(RenderedPatch, k) =>
                /\ Has(Stage2, k)
                /\ Has(conf.finalConfig, k)
                /\ conf.finalConfig.m[k] = Stage2.m[k]

\* C3, amended: FinalConfig = merge(merge(envelope, cleanup), merge(config or
\* {}, rendered patch)); every top-level key whose value in the stage-2
\* document merge(config or {}, rendered patch) is neither null nor an object
\* holds that value in FinalConfig, whatever the envelope held; and a key that
\* config sets and the rendered patch sets to such a value holds the patch's.
C3_CompositionOrder ==
    Prepared =>
        /\ conf.finalConfig = Merge(Merge(stdin, CleanupPatch), Stage2)
        /\ \A k \in TopKeys :
            /\ ScalarAt(Stage2, k) =>
                  Has(conf.finalConfig, k) /\ conf.finalConfig.m[k] = Stage2.m[k]
            /\ Has(BaseConfig, k) /\ ScalarAt(RenderedPatch, k) =>
                  Has(conf.finalConfig, k) /\ conf.finalConfig.m[k] = RenderedPatch.m[k]

\* C3's case: the envelope, config and the rendered patch all set mtu, to
\* three different values, and the patch's is the one delegated.
C3_Witness ==
    /\ Spawned
    /\ ScalarAt(stdin, "mtu") /\ ScalarAt(BaseConfig, "mtu") /\ ScalarAt(RenderedPatch, "mtu")
    /\ stdin.m["mtu"] # BaseConfig.m["mtu"]
    /\ BaseConfig.m["mtu"] # RenderedPatch.m["mtu"]
    /\ stdin.m["mtu"] # RenderedPatch.m["mtu"]
    /\ child.stdin.m["mtu"] = RenderedPatch.m["mtu"]

\* The envelope without the system's own fields and with type set to the plugin.
StrippedEnvelope ==
    Obj([k \in (DOMAIN stdin.m \ OwnFields) \cup {"type"} |->
         IF k = "type" THEN Str(conf.Plugin) ELSE stdin.m[k]])

\* C4: with an empty or absent patch, FinalConfig is the envelope without the
\* system's own fields and with type set to plugin, merged with config (the
\* stripped envelope itself when config is absent).
C4_EmptyPatchNoOp ==
    Prepared /\ conf.Patch.out = EmptyBytes =>
        conf.finalConfig = Merge(StrippedEnvelope, BaseConfig)

\* C5: when the downstream plugin was spawned and exited with code c, this
\* process exits with code c.
C5_ExitStatusPassthrough ==
    Exited /\ child.state = "exited" => exitCode = child.code

\* A stage before delegation failed: reading stdin, prepare, or the resolver.
FailedBeforeDelegation ==
    \E e \in Logged : e.kind \in {"types.Error", "errorString"}

\* C6: when a stage before delegation fails the process exits nonzero and the
\* plugin is never spawned; the plugin is spawned only with a complete
\* FinalConfig.
C6_AllOrNothing ==
    /\ FailedBeforeDelegation => ~Spawned /\ (Exited => exitCode # 0)
    /\ Spawned => Prepared /\ IsJSON(child.stdin) /\ child.stdin = conf.finalConfig

\* The resolver ran and found the plugin / found nothing.
Resolved == pluginPath # <<>>
ResolveFailed == \E e \in Logged : e.kind = "errorString"
\* The candidate list of the claim: CNI_PATH in order, or /opt/cni/bin.
Candidates == IF env.CNI_PATH = <<>> THEN <<"/opt/cni/bin">> ELSE env.CNI_PATH
\* <d>/<plugin> exists and has an execute bit; and it can be opened as well.
ExistsExecutable(d) ==
    LET e == Lookup(fs, Join(d, conf.Plugin))
    IN e.kind # "noent" /\ ExecBits(e.mode)
OpensExecutable(d) ==
    ExistsExecutable(d) /\ Lookup(fs, Join(d, conf.Plugin)).readable

\* C7 as stated: the resolver returns <d>/<plugin> for the first candidate d
\* whose <d>/<plugin> exists and has an execute bit set.
C7_FirstExistingAsStated ==
    Resolved =>
        \E i \in 1..Len(Candidates) :
            /\ pluginPath = Join(Candidates[i], conf.Plugin)
            /\ ExistsExecutable(Candidates[i])
            /\ \A j \in 1..(i - 1) : ~ExistsExecutable(Candidates[j])

\* C7, amended: the resolver returns <d>/<plugin> for the first candidate d,
\* in the order of CNI_PATH (or /opt/cni/bin alone), whose <d>/<plugin> can be
\* opened by the process and has an execute bit set; it fails only when no
\* candidate is such.
C7_FirstMatchWins ==
    /\ Resolved =>
        \E i \in 1..Len(Candidates) :
            /\ pluginPath = Join(Candidates[i], conf.Plugin)
            /\ OpensExecutable(Candidates[i])
            /\ \A j \in 1..(i - 1) : ~OpensExecutable(Candidates[j])
    /\ ResolveFailed => \A i \in 1..Len(Candidates) : ~OpensExecutable(Candidates[i])

\* C7's case: both directories of CNI_PATH hold an executable named plugin and
\* the first-listed one is returned.
C7_Witness ==
    /\ Resolved
    /\ Len(env.CNI_PATH) = 2
    /\ env.CNI_PATH[1] # env.CNI_PATH[2]
    /\ conf.Plugin # ""
    /\ OpensExecutable(env.CNI_PATH[1]) /\ OpensExecutable(env.CNI_PATH[2])
    /\ pluginPath = <<env.CNI_PATH[1], conf.Plugin>>

\* C8: when no candidate directory holds the executable, the process exits
\* nonzero, spawns nothing, and the diagnostic names the plugin and every
\* directory checked.
C8_NotFoundDiagnostic ==
    ResolveFailed =>
        /\ ~Spawned
        /\ Exited => exitCode # 0
        /\ \E e \in Logged :
            /\ e.kind = "errorString"
            /\ \E i \in 1..Len(e.Args) : e.Args[i] = conf.Plugin
            /\ \A j \in 1..Len(Candidates) : \E i \in 1..Len(e.Args) : e.Args[i] = Candidates[j]

\* cmd.Run could not start the executable.
SpawnFailed == \E e \in Logged : e.kind = "PathError"

\* C9: a spawn failure ends the run in a reported error and a nonzero exit code.
C9_SpawnFailureFatal ==
    SpawnFailed /\ Exited => exitCode # 0

\* The patch template of the envelope does not parse.
PatchParseFails ==
    /\ Decode(input.bytes).ok
    /\ ~Decode(input.bytes).conf.Patch.parse

\* C10: a patch template that fails to parse is reported with error code
\* InvalidPatchTemplate (100), not as a decoding failure.
C10_ParseErrorKind ==
    input.ok /\ PatchParseFails /\ pc \notin {"main", "read"} =>
        \E e \in Logged : e.kind = "types.Error" /\ e.Code = 100

\* The envelope decodes and names no plugin (plugin empty, null or absent).
NoPlugin == input.ok /\ Decode(input.bytes).ok /\ Decode(input.bytes).conf.Plugin = ""

\* C11: on a run that does not take the skip fast-path and whose envelope has
\* an empty or absent plugin, no executable path is resolved (the resolver
\* never returns a search-path directory itself), no subprocess is spawned,
\* and the run ends in an error.
C11_PluginRequired ==
    NoPlugin /\ ~SkipListed =>
        /\ ~Resolved
        /\ ~Spawned
        /\ Exited => stderr # <<>>

\* The keys the frame of the composition is about: the envelope's top-level
\* fields other than type and the system's own, that neither config nor the
\* rendered patch names.
FrameKeys ==
    {k \in DOMAIN stdin.m \ ({"type"} \cup OwnFields) :
        ~Has(BaseConfig, k) /\ ~Has(RenderedPatch, k)}

CleanedDoc == Cleaned(stdin, conf).out
DownstreamDoc == Downstream(conf, conf.Patch.out).out
\* The rendered patch sets top-level key k to null; config does, and the
\* rendered patch does not name k.
PatchNulls(k) == Has(RenderedPatch, k) /\ RenderedPatch.m[k] = Null
ConfigNulls(k) == Has(BaseConfig, k) /\ BaseConfig.m[k] = Null /\ ~Has(RenderedPatch, k)

\* C13: a key the rendered patch sets to null is absent from the stage-2
\* document, so FinalConfig holds for it what the cleaned envelope holds
\* (present iff the envelope had it): the patch cannot delete an envelope
\* field.  A null that config holds at a key the patch does not name survives
\* stage 2 and deletes the key from the envelope in stage 3.
C13_PatchNullConsumed ==
    Prepared =>
        \A k \in TopKeys :
            /\ PatchNulls(k) =>
                  /\ ~Has(DownstreamDoc, k)
                  /\ Has(conf.finalConfig, k) <=> Has(CleanedDoc, k)
                  /\ Has(CleanedDoc, k) => conf.finalConfig.m[k] = CleanedDoc.m[k]
                  /\ k \notin {"type"} \cup OwnFields =>
                        (Has(conf.finalConfig, k) <=> Has(stdin, k))
            /\ ConfigNulls(k) =>
                  /\ Has(DownstreamDoc, k) /\ DownstreamDoc.m[k] = Null
                  /\ ~Has(conf.finalConfig, k)

\* C13's case: the envelope holds prevResult and mtu; the rendered patch
\* nulls prevResult, which config sets, and config nulls mtu.  The plugin is
\* handed the envelope's prevResult and no mtu.
C13_Witness ==
    /\ Spawned
    /\ Has(stdin, "prevResult") /\ Has(stdin, "mtu")
    /\ PatchNulls("prevResult") /\ ScalarAt(BaseConfig, "prevResult")
    /\ ConfigNulls("mtu")
    /\ child.stdin.m["prevResult"] = stdin.m["prevResult"]
    /\ ~Has(child.stdin, "mtu")

====
